---- MODULE Spec2Model ----
(***************************************************************************)
(* CompletionTree (completion_tree_view/tree_builder.py): a token prefix   *)
(* tree built from a batch of completions, with a structural hash and      *)
(* descendant leaf statistics per node.                                     *)
(*                                                                         *)
(* Representation.                                                         *)
(*  - The heap `nodes` is a sequence of TreeNode records; a node reference  *)
(*    is its index in the heap (its address), 0 is "no node yet".           *)
(*  - An Optional value is None == <<>> or Some(v) == <<v>>.                *)
(*  - A dict is the sequence of its <<key, value>> items in insertion       *)
(*    order (Python dicts keep insertion order).                           *)
(*  - Token ids are the integers 1..MaxTok; the root's token "ROOT" is the  *)
(*    reserved value ROOT, which is no token id.                            *)
(*  - Scores are floats; the model draws them from {0.0, 1.0}, written 0    *)
(*    and 1, on which float addition is exact.                              *)
(*  - hash(str) is salted per process (PYTHONHASHSEED); it is taken as      *)
(*    collision-free and modelled as the term "H<seed>{<text>}".            *)
(***************************************************************************)
EXTENDS Integers, Sequences, FiniteSets, TLC

\* ---------------------------------------------------------------- bounds
MaxSeqs == 3
MaxLen == 2
MaxTok == 2

Tokens == 1..MaxTok
ScoreValues == {0, 1}
HashSeeds == {0, 1}

\* ------------------------------------------------------------- Optional
None == <<>>
Some(v) == <<v>>

\* ------------------------------------------------------------ sequences
RECURSIVE SeqsUpTo(_, _)
SeqsUpTo(S, n) ==
    IF n = 0 THEN {<<>>}
    ELSE LET shorter == SeqsUpTo(S, n - 1)
         IN  shorter \cup {Append(s, x) : s \in {t \in shorter : Len(t) = n - 1}, x \in S}

TokenSeqs == SeqsUpTo(Tokens, MaxLen)
Batches == SeqsUpTo(TokenSeqs, MaxSeqs)
ScoreLists == SeqsUpTo(ScoreValues, MaxSeqs)

VARIABLES completions, scores, has_scores, hash_seed, next_id, nodes, root,
          node, i, j, pc, call, result

vars == <<completions, scores, has_scores, hash_seed, next_id, nodes, root,
          node, i, j, pc, call, result>>

\* ------------------------------------------------------------- TreeNode
ROOT == 0

TreeNode(token_id, unique_id) ==
    [token_id |-> token_id,
     unique_id |-> unique_id,
     children |-> <<>>,
     is_end_of_completion |-> FALSE,
     score |-> None,
     count |-> 0,
     structural_hash |-> None,
     descendant_leaf_count |-> 0,
     descendant_score_sum |-> 0]

\* dict helpers: `token_id in node.children` and `node.children[token_id]`
HasKey_Never(items, k) == FALSE

HasKey(items, k) == \E x \in 1..Len(items) : items[x][1] = k
Lookup(items, k) == items[CHOOSE x \in 1..Len(items) : items[x][1] = k][2]
Values(items) == [x \in 1..Len(items) |-> items[x][2]]

\* ------------------------------------------------------------ __init__
\* self.has_scores = scores is not None
HasScores_Truthy(sc) == sc # None /\ sc[1] # <<>>

HasScores(sc) == sc # None

\* ------------------------------------------------------------ _get_next_id
\* from self._next_id = nid: the id returned and the counter afterwards
GetNextId_NoIncrement(nid) == [id_val |-> nid, next_id |-> nid]

GetNextId(nid) == [id_val |-> nid, next_id |-> nid + 1]

\* ---------------------------------------------------------- _build_tree
\* root = TreeNode("ROOT", self._get_next_id()); root.count = len(completions)
NewRoot_ZeroCount(unique_id, n) == TreeNode(ROOT, unique_id)

NewRoot(unique_id, n) == [TreeNode(ROOT, unique_id) EXCEPT !.count = n]

\* node.count += 1
Visit_Twice(nd) == [nd EXCEPT !.count = @ + 2]

Visit_OnCreate(nd) == [nd EXCEPT !.count = 1]

Visit(nd) == [nd EXCEPT !.count = @ + 1]

\* One iteration of `for token_id in tokens`, from the state st =
\* [nodes, next_id, node]: look the child up or create it, step to it, count.
InsertToken(st, token_id) ==
    LET ns == st.nodes
        cur == st.node
        fresh == ~HasKey(ns[cur].children, token_id)
        addr == IF fresh THEN Len(ns) + 1 ELSE Lookup(ns[cur].children, token_id)
        got == GetNextId(st.next_id)
        linked == IF fresh
                  THEN Append([ns EXCEPT ![cur].children = Append(@, <<token_id, addr>>)],
                              TreeNode(token_id, got.id_val))
                  ELSE ns
    IN  [nodes |-> [linked EXCEPT ![addr] = Visit(@)],
         next_id |-> IF fresh THEN got.next_id ELSE st.next_id,
         node |-> addr]

\* `scores is not None and i < len(scores)`, i counted from 1 in the model
ScoreAvailable_NoBound(sc, idx) == sc # None

ScoreAvailable(sc, idx) == sc # None /\ idx <= Len(sc[1])

EndOfCompletion_FirstWins(st, sc, idx) ==
    LET marked == [st.nodes EXCEPT ![st.node].is_end_of_completion = TRUE]
    IN  IF ScoreAvailable(sc, idx) /\ marked[st.node].score = None
        THEN [nodes |-> [marked EXCEPT ![st.node].score = Some(sc[1][idx])],
              raised |-> FALSE]
        ELSE [nodes |-> marked, raised |-> FALSE]

EndOfCompletion_ScoreDefault(st, sc, idx) ==
    LET marked == [st.nodes EXCEPT ![st.node].is_end_of_completion = TRUE]
    IN  [nodes |-> [marked EXCEPT ![st.node].score =
                        IF ScoreAvailable(sc, idx) THEN Some(sc[1][idx]) ELSE Some(0)],
         raised |-> FALSE]

EndOfCompletion_NotAtRoot(st, sc, idx) ==
    LET marked == IF st.node = 1 THEN st.nodes
                  ELSE [st.nodes EXCEPT ![st.node].is_end_of_completion = TRUE]
    IN  IF ScoreAvailable(sc, idx)
        THEN [nodes |-> [marked EXCEPT ![st.node].score = Some(sc[1][idx])],
              raised |-> FALSE]
        ELSE [nodes |-> marked, raised |-> FALSE]

EndOfCompletion_MarkOnlyScored(st, sc, idx) ==
    IF ScoreAvailable(sc, idx)
    THEN [nodes |-> [st.nodes EXCEPT ![st.node].is_end_of_completion = TRUE,
                                     ![st.node].score = Some(sc[1][idx])],
          raised |-> FALSE]
    ELSE [nodes |-> st.nodes, raised |-> FALSE]

\* After the tokens of completion idx: mark the node, assign the score.
\* scores[i] raises IndexError when i is out of range: the result "raised".
EndOfCompletion(st, sc, idx) ==
    LET marked == [st.nodes EXCEPT ![st.node].is_end_of_completion = TRUE]
    IN  IF ScoreAvailable(sc, idx)
        THEN IF idx <= Len(sc[1])
             THEN [nodes |-> [marked EXCEPT ![st.node].score = Some(sc[1][idx])],
                   raised |-> FALSE]
             ELSE [nodes |-> marked, raised |-> TRUE]
        ELSE [nodes |-> marked, raised |-> FALSE]

\* The loop `for token_id in tokens` from position k on.
RECURSIVE InsertTokens(_, _, _)
InsertTokens(st, tokens, k) ==
    IF k > Len(tokens) THEN st
    ELSE InsertTokens(InsertToken(st, tokens[k]), tokens, k + 1)

\* The loop `for i, tokens in enumerate(completions)` from index idx on (no
\* IndexError arises, see EndOfCompletion); the heap _build_tree returns.
RECURSIVE InsertCompletions(_, _, _, _)
InsertCompletions(st, comps, sc, idx) ==
    IF idx > Len(comps) THEN st.nodes
    ELSE LET walked == InsertTokens([st EXCEPT !.node = 1], comps[idx], 1)
         IN  InsertCompletions([walked EXCEPT !.nodes = EndOfCompletion(walked, sc, idx).nodes],
                               comps, sc, idx + 1)

BuildTree(comps, sc) ==
    InsertCompletions([nodes |-> <<NewRoot(GetNextId(0).id_val, Len(comps))>>,
                       next_id |-> GetNextId(0).next_id, node |-> 1],
                      comps, sc, 1)

\* ---------------------------------------------------------- json.dumps
\* json.dumps renders a tuple as a JSON array: "[" e1 ", " e2 ... "]"
RECURSIVE JoinFrom(_, _)
JoinFrom(elems, k) ==
    IF k > Len(elems) THEN ""
    ELSE IF k = Len(elems) THEN elems[k]
    ELSE elems[k] \o ", " \o JoinFrom(elems, k + 1)

JsonArray(elems) == "[" \o JoinFrom(elems, 1) \o "]"

\* a token id is an int, the root's is the str "ROOT"
JsonToken(token_id) == IF token_id = ROOT THEN "\"ROOT\"" ELSE ToString(token_id)

JsonBool(b) == IF b THEN "true" ELSE "false"

\* None is null; a float score 0.0 or 1.0 keeps its ".0"
JsonScore(sc) == IF sc = None THEN "null" ELSE ToString(sc[1]) \o ".0"

\* ---------------------------------------------------------- _stable_hash
\* hash(json.dumps(value, sort_keys=True)): str hashing is keyed by the
\* process's hash seed. The value is the rendered tuple `components`.
StableHash(components, seed) ==
    "H" \o ToString(seed) \o "{" \o JsonArray(components) \o "}"

\* ------------------------------------------- _compute_structural_hashes
\* sorted(node.children.items()): ascending by token id (keys are distinct)
SortedItems_Unsorted(items) == items

RECURSIVE SortedItems(_)
SortedItems(items) ==
    IF items = <<>> THEN <<>>
    ELSE LET m == CHOOSE x \in 1..Len(items) :
                      \A y \in 1..Len(items) : items[x][1] <= items[y][1]
             rest == [x \in 1..(Len(items) - 1) |->
                          IF x < m THEN items[x] ELSE items[x + 1]]
         IN  <<items[m]>> \o SortedItems(rest)

\* hash_components = (token_id, is_end, score if is_end else None, children)
HashComponents_WithCount(nd, child_hashes) ==
    <<JsonToken(nd.token_id),
      JsonBool(nd.is_end_of_completion),
      JsonScore(IF nd.is_end_of_completion THEN nd.score ELSE None),
      JsonArray([k \in 1..Len(child_hashes) |->
                    JsonArray(<<JsonToken(child_hashes[k][1]), child_hashes[k][2]>>)]),
      ToString(nd.count)>>

HashComponents_NoScore(nd, child_hashes) ==
    <<JsonToken(nd.token_id),
      JsonBool(nd.is_end_of_completion),
      JsonArray([k \in 1..Len(child_hashes) |->
                    JsonArray(<<JsonToken(child_hashes[k][1]), child_hashes[k][2]>>)])>>

HashComponents(nd, child_hashes) ==
    <<JsonToken(nd.token_id),
      JsonBool(nd.is_end_of_completion),
      JsonScore(IF nd.is_end_of_completion THEN nd.score ELSE None),
      JsonArray([k \in 1..Len(child_hashes) |->
                    JsonArray(<<JsonToken(child_hashes[k][1]), child_hashes[k][2]>>)])>>

\* The heap after _compute_structural_hashes(node at addr); its return value
\* is the structural_hash the node then holds.
RECURSIVE ComputeStructuralHashes(_, _, _), HashChildren(_, _, _, _)
HashChildren(ns, items, k, seed) ==
    IF k > Len(items) THEN ns
    ELSE HashChildren(ComputeStructuralHashes(ns, items[k][2], seed), items, k + 1, seed)

ComputeStructuralHashes(ns, addr, seed) ==
    IF ns[addr].structural_hash # None THEN ns
    ELSE LET sorted_children == SortedItems(ns[addr].children)
             hashed == HashChildren(ns, sorted_children, 1, seed)
             child_hashes == [k \in 1..Len(sorted_children) |->
                                 <<sorted_children[k][1],
                                   hashed[sorted_children[k][2]].structural_hash[1]>>]
         IN  [hashed EXCEPT ![addr].structural_hash =
                  Some(StableHash(HashComponents(hashed[addr], child_hashes), seed))]

\* --------------------------------------------------- _compute_leaf_stats
\* The heap after _compute_leaf_stats(node at addr); its return value is the
\* (descendant_leaf_count, descendant_score_sum) the node then holds.
\* base case, lines 183-184: <<total_leaves, score_sum>> of a terminal node
OwnLeafStats_UnscoredIsOne(nd) == <<1, IF nd.score # None THEN nd.score[1] ELSE 1>>

OwnLeafStats_NoLeaf(nd) == <<0, IF nd.score # None THEN nd.score[1] ELSE 0>>

OwnLeafStats(nd) == <<1, IF nd.score # None THEN nd.score[1] ELSE 0>>

\* lines 191-192: total_leaves += child_total; score_sum += child_sum
Accumulate_Overwrite(acc, child_total, child_sum) == <<child_total, child_sum>>

Accumulate_LeavesOnly(acc, child_total, child_sum) == <<acc[1] + child_total, acc[2]>>

Accumulate(acc, child_total, child_sum) == <<acc[1] + child_total, acc[2] + child_sum>>

\* lines 195-196: store the computed stats on the node
StoreStats_AddsUp(nd, total, sum) ==
    [nd EXCEPT !.descendant_leaf_count = @ + total, !.descendant_score_sum = @ + sum]

StoreStats(nd, total, sum) ==
    [nd EXCEPT !.descendant_leaf_count = total, !.descendant_score_sum = sum]

RECURSIVE ComputeLeafStats(_, _), StatsChildren(_, _, _, _)
StatsChildren(ns, kids, k, acc) ==
    IF k > Len(kids) THEN [nodes |-> ns, total |-> acc[1], sum |-> acc[2]]
    ELSE LET done == ComputeLeafStats(ns, kids[k])
         IN  StatsChildren(done, kids, k + 1,
                           Accumulate(acc, done[kids[k]].descendant_leaf_count,
                                      done[kids[k]].descendant_score_sum))

ComputeLeafStats_Descends(ns, addr) ==
    LET r == StatsChildren(ns, Values(ns[addr].children), 1, <<0, 0>>)
    IN  IF ns[addr].is_end_of_completion
        THEN [r.nodes EXCEPT ![addr] = StoreStats(@, OwnLeafStats(@)[1], OwnLeafStats(@)[2])]
        ELSE [r.nodes EXCEPT ![addr] = StoreStats(@, r.total, r.sum)]

ComputeLeafStats(ns, addr) ==
    IF ns[addr].is_end_of_completion
    THEN [ns EXCEPT ![addr] = StoreStats(@, OwnLeafStats(@)[1], OwnLeafStats(@)[2])]
    ELSE LET r == StatsChildren(ns, Values(ns[addr].children), 1, <<0, 0>>)
         IN  [r.nodes EXCEPT ![addr] = StoreStats(@, r.total, r.sum)]

\* ------------------------------------------- get_node_score_percentage
\* The quotient sum / count as the fraction <<numerator, denominator>> in
\* lowest terms (sum is a whole number here, count is at least 1).
RECURSIVE Gcd(_, _)
Gcd(a, b) == IF b = 0 THEN a ELSE Gcd(b, a % b)

Quotient(a, b) == <<a \div Gcd(a, b), b \div Gcd(a, b)>>

GetNodeScorePercentage_ZeroForAbsent(nd, with_scores) ==
    IF ~with_scores \/ nd.descendant_leaf_count = 0 THEN Some(<<0, 1>>)
    ELSE Some(Quotient(nd.descendant_score_sum, nd.descendant_leaf_count))

GetNodeScorePercentage_IgnoresHasScores(nd, with_scores) ==
    IF nd.descendant_leaf_count = 0 THEN None
    ELSE Some(Quotient(nd.descendant_score_sum, nd.descendant_leaf_count))

GetNodeScorePercentage(nd, with_scores) ==
    IF ~with_scores \/ nd.descendant_leaf_count = 0 THEN None
    ELSE Some(Quotient(nd.descendant_score_sum, nd.descendant_leaf_count))

\* ------------------------------------------------------------- actions
\* `call` is the last call made on the constructed tree: the method and the
\* node it was given; `result` is what get_node_score_percentage last returned.
NoCall == [op |-> "none", arg |-> 0]
Call(op, arg) == [op |-> op, arg |-> arg]

Init ==
    /\ completions \in Batches
    /\ scores \in {None} \cup {Some(l) : l \in ScoreLists}
    /\ hash_seed \in HashSeeds
    /\ has_scores = HasScores(scores)
    /\ next_id = 0
    /\ nodes = <<>>
    /\ root = 0
    /\ node = 0
    /\ i = 0
    /\ j = 0
    /\ pc = "build"
    /\ call = NoCall
    /\ result = None

\* _build_tree, lines 105-106
BuildRoot ==
    /\ pc = "build"
    /\ nodes' = <<NewRoot(GetNextId(next_id).id_val, Len(completions))>>
    /\ next_id' = GetNextId(next_id).next_id
    /\ root' = 1
    /\ node' = 1
    /\ i' = 1
    /\ j' = 1
    /\ pc' = IF Len(completions) = 0 THEN "hash" ELSE "insert"
    /\ UNCHANGED <<completions, scores, has_scores, hash_seed, call, result>>

\* _build_tree, lines 111-115
InsertTokenStep ==
    /\ pc = "insert"
    /\ j <= Len(completions[i])
    /\ LET st == InsertToken([nodes |-> nodes, next_id |-> next_id, node |-> node],
                             completions[i][j])
       IN  /\ nodes' = st.nodes
           /\ next_id' = st.next_id
           /\ node' = st.node
    /\ j' = j + 1
    /\ UNCHANGED <<completions, scores, has_scores, hash_seed, root, i, pc, call, result>>

\* _build_tree, lines 117-122, and the start of the next iteration (line 109)
EndOfCompletionStep ==
    /\ pc = "insert"
    /\ j > Len(completions[i])
    /\ LET r == EndOfCompletion([nodes |-> nodes, next_id |-> next_id, node |-> node],
                                scores, i)
       IN  /\ nodes' = r.nodes
           /\ pc' = IF r.raised THEN "raised"
                    ELSE IF i = Len(completions) THEN "hash" ELSE "insert"
    /\ i' = i + 1
    /\ j' = 1
    /\ node' = root
    /\ UNCHANGED <<completions, scores, has_scores, hash_seed, next_id, root, call,
                   result>>

\* __init__, line 80
ComputeStructuralHashesStep ==
    /\ pc = "hash"
    /\ nodes' = ComputeStructuralHashes(nodes, root, hash_seed)
    /\ pc' = "stats"
    /\ UNCHANGED <<completions, scores, has_scores, hash_seed, next_id, root,
                   node, i, j, call, result>>

\* __init__, line 81; the constructor returns
ComputeLeafStatsStep ==
    /\ pc = "stats"
    /\ nodes' = ComputeLeafStats(nodes, root)
    /\ pc' = "ready"
    /\ UNCHANGED <<completions, scores, has_scores, hash_seed, next_id, root,
                   node, i, j, call, result>>

\* a reader calls get_node_score_percentage on some node of the tree
GetNodeScorePercentageCall ==
    /\ pc = "ready"
    /\ \E n \in DOMAIN nodes :
           /\ call' = Call("get_node_score_percentage", n)
           /\ result' = GetNodeScorePercentage(nodes[n], has_scores)
    /\ UNCHANGED <<completions, scores, has_scores, hash_seed, next_id, nodes,
                   root, node, i, j, pc>>

\* _compute_structural_hashes(root) is run again on the constructed tree
RerunStructuralHashes ==
    /\ pc = "ready"
    /\ call' = Call("_compute_structural_hashes", root)
    /\ nodes' = ComputeStructuralHashes(nodes, root, hash_seed)
    /\ UNCHANGED <<completions, scores, has_scores, hash_seed, next_id, root,
                   node, i, j, pc, result>>

\* _compute_leaf_stats(root) is run again on the constructed tree
RerunLeafStats ==
    /\ pc = "ready"
    /\ call' = Call("_compute_leaf_stats", root)
    /\ nodes' = ComputeLeafStats(nodes, root)
    /\ UNCHANGED <<completions, scores, has_scores, hash_seed, next_id, root,
                   node, i, j, pc, result>>

Next ==
    \/ BuildRoot
    \/ InsertTokenStep
    \/ EndOfCompletionStep
    \/ ComputeStructuralHashesStep
    \/ ComputeLeafStatsStep
    \/ GetNodeScorePercentageCall
    \/ RerunStructuralHashes
    \/ RerunLeafStats

Spec == Init /\ [][Next]_vars

\* __init__, lines 77-81: the heap of the constructed tree (its root is 1)
CompletionTree(comps, sc, seed) ==
    ComputeLeafStats(ComputeStructuralHashes(BuildTree(comps, sc), 1, seed), 1)

\* =========================================================== properties
\* Vocabulary of the claims, over the current heap.
Addrs == DOMAIN nodes
Built == pc \in {"hash", "stats", "ready"}
Constructed == pc = "ready"

Items(n) == nodes[n].children
ChildAddrs(n) == {Items(n)[k][2] : k \in 1..Len(Items(n))}
Links(n) == UNION {{<<p, k>> : k \in {x \in 1..Len(Items(p)) : Items(p)[x][2] = n}} :
                      p \in Addrs}
ParentOf(n) == (CHOOSE l \in Links(n) : TRUE)[1]
KeyOf(n) == Items(ParentOf(n))[(CHOOSE l \in Links(n) : TRUE)[2]][1]

\* the keys on the way from the root to n
RECURSIVE PathTo(_)
PathTo(n) == IF n = root THEN <<>> ELSE Append(PathTo(ParentOf(n)), KeyOf(n))

\* the nodes a walk from n along the keys tokens[k..] ends at
RECURSIVE WalkEnds(_, _, _)
WalkEnds(n, tokens, k) ==
    IF k > Len(tokens) THEN {n}
    ELSE UNION {WalkEnds(Items(n)[x][2], tokens, k + 1) :
                   x \in {y \in 1..Len(Items(n)) : Items(n)[y][1] = tokens[k]}}

\* the indices of the inserted sequences that end exactly at n
EndingAt(n) == {c \in 1..Len(completions) : completions[c] = PathTo(n)}

RECURSIVE SumOver(_, _)
SumOver(S, f) ==
    IF S = {} THEN 0
    ELSE LET x == CHOOSE y \in S : TRUE IN f[x] + SumOver(S \ {x}, f)

ChildCountSum(n) == SumOver(ChildAddrs(n), [a \in Addrs |-> nodes[a].count])

\* every node but the root hangs under exactly one key of exactly one parent
IsTree == /\ Links(root) = {}
          /\ \A n \in Addrs \ {root} : Cardinality(Links(n)) = 1

\* C1: after _build_tree every inserted sequence labels exactly one walk from
\* the root through children keyed by its tokens, and a node is marked
\* is_end_of_completion exactly when its path from the root is an inserted
\* sequence.
C1_WalksAndTerminals ==
    Built =>
        /\ IsTree
        /\ \A c \in 1..Len(completions) :
               Cardinality(WalkEnds(root, completions[c], 1)) = 1
        /\ \A n \in Addrs : nodes[n].is_end_of_completion <=> EndingAt(n) # {}

C1_Witness ==
    /\ Constructed
    /\ Len(completions) = MaxSeqs
    /\ \E n \in Addrs : nodes[n].is_end_of_completion /\ Items(n) # <<>>
    /\ \E n \in Addrs \ {root} : ~nodes[n].is_end_of_completion
    /\ \E n \in Addrs : Cardinality(EndingAt(n)) >= 2

\* C2: after construction every node's count is the sum of its children's
\* counts plus the number of inserted sequences ending exactly at it.
C2_CountDecomposition ==
    Built => \A n \in Addrs :
                 nodes[n].count = ChildCountSum(n) + Cardinality(EndingAt(n))

C2_Witness ==
    /\ Constructed
    /\ \E n \in Addrs \ {root} : Items(n) # <<>> /\ Cardinality(EndingAt(n)) >= 2
    /\ nodes[root].count = MaxSeqs

\* C3: for every input, the empty batch and batches with empty or duplicate
\* sequences included, root.count is the number of inserted sequences.
C3_RootCount == Built => nodes[root].count = Len(completions)

C3_Witness ==
    /\ Constructed
    /\ \E a, b \in 1..Len(completions) : a # b /\ completions[a] = completions[b]
    /\ \E c \in 1..Len(completions) : completions[c] = <<>>
    /\ nodes[root].count = MaxSeqs

\* C4: in every state during construction (and after it) every node's count
\* is at least the sum of its children's counts.
C4_CountDominatesChildren ==
    pc # "build" => \A n \in Addrs : nodes[n].count >= ChildCountSum(n)

C4_Witness ==
    /\ pc = "insert"
    /\ i >= 2
    /\ j = 2
    /\ j <= Len(completions[i])
    /\ Items(node) # <<>>
    /\ nodes[node].count > ChildCountSum(node)
    /\ ~nodes[node].is_end_of_completion

\* the score the batch supplies for sequence c: scores[c] when a score list
\* was given and c is within it, otherwise none
ScoreOfSeq(c) ==
    IF scores # None /\ c <= Len(scores[1]) THEN Some(scores[1][c]) ELSE None

Scored(c) == ScoreOfSeq(c) # None

Last(S) == CHOOSE c \in S : \A d \in S : d <= c

\* C5 as stated: a node at which several sequences end holds the score of the
\* last of them in insertion order.
C5_LastSequenceScore ==
    Built => \A n \in Addrs :
                 Cardinality(EndingAt(n)) >= 2 =>
                     nodes[n].score = ScoreOfSeq(Last(EndingAt(n)))

\* C5 amended: a node at which several sequences end holds the score of the
\* last of them that has a score within the score list, and no score when
\* none of them has one.
C5_LastScoredSequenceScore ==
    Built => \A n \in Addrs :
                 Cardinality(EndingAt(n)) >= 2 =>
                     LET scored == {c \in EndingAt(n) : Scored(c)}
                     IN  nodes[n].score =
                             IF scored = {} THEN None ELSE ScoreOfSeq(Last(scored))

C5_Witness ==
    /\ Constructed
    /\ \E n \in Addrs :
           \E a, b \in EndingAt(n) :
               /\ a < b
               /\ Scored(a) /\ Scored(b)
               /\ ScoreOfSeq(a) # ScoreOfSeq(b)
               /\ nodes[n].score = ScoreOfSeq(b)

\* the node at which inserted sequence c ends
EndNode(c) == CHOOSE n \in Addrs : n \in WalkEnds(root, completions[c], 1)

RECURSIVE ProperAncestors(_)
ProperAncestors(n) ==
    IF n = root THEN {} ELSE {ParentOf(n)} \cup ProperAncestors(ParentOf(n))

ChildLeafSum(n) ==
    SumOver(ChildAddrs(n), [a \in Addrs |-> nodes[a].descendant_leaf_count])
ChildScoreSum(n) ==
    SumOver(ChildAddrs(n), [a \in Addrs |-> nodes[a].descendant_score_sum])

\* sequence c lies beyond a score list that was supplied
BeyondScores(c) == scores # None /\ c > Len(scores[1])

\* the statistics of every proper ancestor of t are the sums over its
\* children, so that what t holds is carried up to each of them
CarriedUp(t) ==
    \A q \in ProperAncestors(t) :
        /\ nodes[q].descendant_leaf_count = ChildLeafSum(q)
        /\ nodes[q].descendant_score_sum = ChildScoreSum(q)

Keys(n) == {Items(n)[x][1] : x \in 1..Len(Items(n))}
ChildAt(n, k) == Items(n)[CHOOSE x \in 1..Len(Items(n)) : Items(n)[x][1] = k][2]

RECURSIVE StructEq(_, _)
StructEq(n, m) ==
    /\ nodes[n].token_id = nodes[m].token_id
    /\ nodes[n].is_end_of_completion = nodes[m].is_end_of_completion
    /\ nodes[n].is_end_of_completion => nodes[n].score = nodes[m].score
    /\ Keys(n) = Keys(m)
    /\ \A k \in Keys(n) : StructEq(ChildAt(n, k), ChildAt(m, k))

\* C7: after construction two nodes of the tree have the same
\* structural_hash exactly when their subtrees are structurally
\* indistinguishable (the hash taken as collision-free).
C7_HashIffStructEq ==
    Constructed =>
        \A n, m \in Addrs :
            (nodes[n].structural_hash = nodes[m].structural_hash) <=> StructEq(n, m)

C7_Witness ==
    /\ Constructed
    /\ \E n, m \in Addrs :
           n # m /\ nodes[n].structural_hash = nodes[m].structural_hash
    /\ \E n, m \in Addrs :
           /\ nodes[n].token_id = nodes[m].token_id
           /\ nodes[n].is_end_of_completion /\ nodes[m].is_end_of_completion
           /\ nodes[n].score # nodes[m].score
           /\ nodes[n].structural_hash # nodes[m].structural_hash

\* The reorderings of a batch of n sequences, and the batch reordered by p
\* with its scores reordered alike (scores past the batch are never read).
Perms(n) == {p \in [1..n -> 1..n] : \A a, b \in 1..n : p[a] = p[b] => a = b}
Reordered(comps, p) == [k \in 1..Len(comps) |-> comps[p[k]]]
ReorderedScores(sc, p, n) ==
    IF sc = None THEN None ELSE Some([k \in 1..n |-> sc[1][p[k]]])

\* every sequence of the batch has its own entry in the score list, if any
Paired == scores = None \/ Len(scores[1]) >= Len(completions)

RootHashOf(comps, sc, seed) ==
    ComputeStructuralHashes(BuildTree(comps, sc), 1, seed)[1].structural_hash

\* C8 as stated: the tree of any reordering of the batch (scores reordered
\* alike) has the same root structural_hash.
C8_OrderInvariant ==
    (Constructed /\ Paired) =>
        \A p \in Perms(Len(completions)) :
            RootHashOf(Reordered(completions, p),
                       ReorderedScores(scores, p, Len(completions)),
                       hash_seed) = nodes[root].structural_hash

\* equal sequences of the batch carry equal scores
DuplicatesAgree ==
    \A a, b \in 1..Len(completions) :
        completions[a] = completions[b] => ScoreOfSeq(a) = ScoreOfSeq(b)

\* C8 amended: when equal sequences of the batch carry equal scores, the
\* tree of any reordering of the batch (scores reordered alike), built in
\* the same process, has the same root structural_hash.
C8_OrderInvariantNoConflict ==
    (Constructed /\ Paired /\ DuplicatesAgree) =>
        \A p \in Perms(Len(completions)) :
            RootHashOf(Reordered(completions, p),
                       ReorderedScores(scores, p, Len(completions)),
                       hash_seed) = nodes[root].structural_hash

C8_Witness ==
    /\ Constructed /\ Paired /\ DuplicatesAgree
    /\ scores # None
    /\ Len(completions) = MaxSeqs
    /\ Len(Items(root)) >= 2
    /\ Items(root)[1][1] > Items(root)[2][1]
    /\ \E a, b \in 1..Len(completions) :
           a # b /\ completions[a] = completions[b]
    /\ \E a, b \in 1..Len(completions) : ScoreOfSeq(a) # ScoreOfSeq(b)

\* C9: the structural_hash does not depend on count or unique_id: subtrees
\* that agree on tokens, terminal flags and terminal scores hash alike even
\* though their nodes' counts and unique_ids differ.
C9_HashIgnoresCountAndId ==
    Constructed =>
        \A n, m \in Addrs :
            (/\ StructEq(n, m)
             /\ \/ nodes[n].count # nodes[m].count
                \/ nodes[n].unique_id # nodes[m].unique_id)
            => nodes[n].structural_hash = nodes[m].structural_hash

C9_Witness ==
    /\ Constructed
    /\ \E n, m \in Addrs :
           /\ StructEq(n, m)
           /\ nodes[n].count # nodes[m].count
           /\ nodes[n].unique_id # nodes[m].unique_id
           /\ nodes[n].score # None
           /\ nodes[n].structural_hash = nodes[m].structural_hash

\* C10: the structural_hash of the same logical input is the same in every
\* process, whatever the process's hash seed.
C10_SameHashInEveryProcess ==
    Constructed =>
        \A seed \in HashSeeds :
            RootHashOf(completions, scores, seed) = nodes[root].structural_hash

\* ------------------------------------------------- statistics vocabulary
Subtree(n) == {m \in Addrs : m = n \/ n \in ProperAncestors(m)}
TerminalsIn(n) == {t \in Subtree(n) : nodes[t].is_end_of_completion}

\* a node below a terminal node
Shadowed(n) == \E q \in ProperAncestors(n) : nodes[q].is_end_of_completion

\* the proper ancestors of every node, computed once
AncestorMap == [m \in Addrs |-> ProperAncestors(m)]

\* the terminal nodes of n's subtree with no terminal node above them in it,
\* anc being AncestorMap
TopTerminalsBy(anc, n) ==
    {t \in Addrs :
        /\ t = n \/ n \in anc[t]
        /\ nodes[t].is_end_of_completion
        /\ \A q \in anc[t] : (q = n \/ n \in anc[q]) => ~nodes[q].is_end_of_completion}

TopTerminals(n) == TopTerminalsBy(AncestorMap, n)

ScoreOrZero == [a \in Addrs |-> IF nodes[a].score = None THEN 0 ELSE nodes[a].score[1]]

IsQuotient(r, a, b) == r # None /\ r[1][2] > 0 /\ r[1][1] * b = a * r[1][2]

Queried == call.op = "get_node_score_percentage"

\* C13: get_node_score_percentage(node) returns descendant_score_sum /
\* descendant_leaf_count when the tree has scores and the node's
\* descendant_leaf_count is at least 1, and None in every other case.
C13_ScorePercentage ==
    (Constructed /\ Queried) =>
        LET nd == nodes[call.arg]
        IN  IF has_scores /\ nd.descendant_leaf_count >= 1
            THEN IsQuotient(result, nd.descendant_score_sum, nd.descendant_leaf_count)
            ELSE result = None

C13_Witness ==
    /\ Constructed /\ Queried
    /\ call.arg # root
    /\ nodes[call.arg].descendant_leaf_count = 2
    /\ nodes[call.arg].descendant_score_sum = 1
    /\ IsQuotient(result, 1, 2)
    /\ Len(completions) = MaxSeqs

AllScored == \A c \in 1..Len(completions) : Scored(c)

IsStrictPrefix(s, t) == Len(s) < Len(t) /\ SubSeq(t, 1, Len(s)) = s

PrefixFree ==
    \A a, b \in 1..Len(completions) : ~IsStrictPrefix(completions[a], completions[b])

PairwiseDistinct ==
    \A a, b \in 1..Len(completions) : completions[a] = completions[b] => a = b

TotalScore ==
    SumOver(1..Len(completions), [c \in 1..Len(completions) |-> ScoreOfSeq(c)[1]])

\* C14 as stated: when every inserted sequence has a score and none is a
\* strict prefix of another, the score percentage of the root is the mean of
\* the scores of all inserted sequences (of a batch that is not empty).
C14_RootPercentageIsMean ==
    (Constructed /\ Len(completions) >= 1 /\ AllScored /\ PrefixFree) =>
        IsQuotient(GetNodeScorePercentage(nodes[root], has_scores),
                   TotalScore, Len(completions))

\* C14 amended: the same when, in addition, the inserted sequences are
\* pairwise distinct.
C14_RootPercentageIsMeanOfDistinct ==
    (Constructed /\ Len(completions) >= 1 /\ AllScored /\ PrefixFree /\ PairwiseDistinct) =>
        IsQuotient(GetNodeScorePercentage(nodes[root], has_scores),
                   TotalScore, Len(completions))

C14_Witness ==
    /\ Constructed /\ AllScored /\ PrefixFree /\ PairwiseDistinct
    /\ Len(completions) = MaxSeqs
    /\ TotalScore = 2
    /\ nodes[root].descendant_leaf_count = MaxSeqs
    /\ \E c \in 1..Len(completions) : Len(completions[c]) = MaxLen
    /\ Queried /\ call.arg = root /\ IsQuotient(result, 2, MaxSeqs)

\* C15: a tree constructed from an empty sequence list, with or without a
\* score list, is the root alone, with no children, count 0, not terminal,
\* descendant_leaf_count 0, and get_node_score_percentage(root) returns None.
C15_EmptyBatch ==
    (Constructed /\ completions = <<>>) =>
        /\ Addrs = {root}
        /\ Items(root) = <<>>
        /\ nodes[root].count = 0
        /\ ~nodes[root].is_end_of_completion
        /\ nodes[root].descendant_leaf_count = 0
        /\ GetNodeScorePercentage(nodes[root], has_scores) = None
        /\ Queried => result = None

C15_Witness ==
    /\ Constructed /\ completions = <<>>
    /\ scores # None /\ scores[1] # <<>>
    /\ Queried /\ call.arg = root /\ result = None

\* C16: after any number of re-runs of _compute_structural_hashes(root) and
\* _compute_leaf_stats(root), in any order, every node's structural_hash,
\* descendant_leaf_count and descendant_score_sum are what they were when
\* the constructor returned.
C16_RerunsChangeNothing ==
    Constructed =>
        LET returned == CompletionTree(completions, scores, hash_seed)
        IN  /\ DOMAIN returned = Addrs
            /\ \A n \in Addrs :
                   /\ nodes[n].structural_hash = returned[n].structural_hash
                   /\ nodes[n].descendant_leaf_count = returned[n].descendant_leaf_count
                   /\ nodes[n].descendant_score_sum = returned[n].descendant_score_sum

C16_Witness ==
    /\ Constructed
    /\ call.op = "_compute_leaf_stats"
    /\ result # None
    /\ nodes[root].descendant_leaf_count >= 2
    /\ nodes[root].descendant_score_sum >= 1
    /\ \E n \in Addrs : Shadowed(n)

\* C17: once the constructor has returned, calls of
\* get_node_score_percentage leave has_scores, the set of nodes and every
\* field of every node unchanged, and has_scores stays equal to whether a
\* score list was supplied.
C17_ReadOnlyAfterConstruction ==
    /\ [](Constructed => (has_scores <=> scores # None))
    /\ [][(Constructed /\ call'.op = "get_node_score_percentage") =>
              /\ nodes' = nodes
              /\ has_scores' = has_scores
              /\ root' = root
              /\ next_id' = next_id]_vars

C17_Witness ==
    /\ Constructed /\ Queried
    /\ has_scores /\ scores = Some(<<>>)
    /\ Len(nodes) >= 3
    /\ result = None

\* C18: in every state during and after construction the unique_ids of the
\* nodes are pairwise distinct and strictly increasing in creation order
\* (the order of the heap, root first), and a node's unique_id never changes.
C18_UniqueIds ==
    /\ [](\A a, b \in Addrs :
              /\ a # b => nodes[a].unique_id # nodes[b].unique_id
              /\ a < b => nodes[a].unique_id < nodes[b].unique_id)
    /\ [][\A n \in Addrs :
              n \in DOMAIN nodes' /\ nodes'[n].unique_id = nodes[n].unique_id]_vars

C18_Witness ==
    /\ Constructed
    /\ Len(nodes) >= 4
    /\ nodes[root].unique_id = 0
    /\ \E n \in Addrs \ {root} : nodes[n].count >= 2 /\ Items(n) # <<>>

\* C19: in every state during and after construction a node with a score is
\* marked is_end_of_completion, and some sequence ending at it has a score
\* within the score list.
C19_ScoreOnlyOnTerminals ==
    pc # "build" =>
        \A n \in Addrs :
            nodes[n].score # None =>
                /\ nodes[n].is_end_of_completion
                /\ \E c \in EndingAt(n) : Scored(c)

C19_Witness ==
    /\ pc = "insert"
    /\ scores # None
    /\ \E n \in Addrs : nodes[n].score # None /\ Items(n) # <<>>
    /\ \E n \in Addrs : nodes[n].is_end_of_completion /\ nodes[n].score = None
    /\ \E n \in Addrs \ {root} : ~nodes[n].is_end_of_completion

\* C20: after construction the descendant_leaf_count and the
\* descendant_score_sum of every non-terminal node are the sums of those of
\* its direct children.
C20_NonTerminalSumsChildren ==
    Constructed =>
        \A n \in Addrs :
            ~nodes[n].is_end_of_completion =>
                /\ nodes[n].descendant_leaf_count = ChildLeafSum(n)
                /\ nodes[n].descendant_score_sum = ChildScoreSum(n)

C20_Witness ==
    /\ Constructed
    /\ \E n \in Addrs \ {root} :
           /\ ~nodes[n].is_end_of_completion
           /\ Cardinality(ChildAddrs(n)) = 2
           /\ nodes[n].descendant_leaf_count = 2
           /\ nodes[n].descendant_score_sum = 1
    /\ nodes[root].descendant_leaf_count = 3

\* C21: an empty token sequence terminates at the root. Once the tree is built
\* the root is terminal exactly when the batch contains an empty sequence, and
\* the step that inserts an empty sequence marks the root and creates no node
\* (the heap keeps its size and no identifier is drawn).
HasEmptySequence == \E c \in 1..Len(completions) : completions[c] = <<>>

InsertsEmptySequence == pc = "insert" /\ completions[i] = <<>>

C21_EmptySequenceAtRoot ==
    /\ [](Built => (nodes[root].is_end_of_completion <=> HasEmptySequence))
    /\ [][InsertsEmptySequence =>
              /\ Len(nodes') = Len(nodes)
              /\ next_id' = next_id
              /\ nodes'[root].is_end_of_completion]_vars

C21_Witness ==
    /\ Constructed
    /\ Len(completions) = 3
    /\ completions[1] # <<>>
    /\ completions[2] = <<>>
    /\ completions[3] # <<>>
    /\ nodes[root].is_end_of_completion
    /\ Len(nodes) = 3

\* C22: the statistics pass does not descend below a terminal node. After
\* construction every node strictly below some terminal node keeps
\* descendant_leaf_count 0 and descendant_score_sum 0, and
\* get_node_score_percentage returns None for it, also when the node is itself
\* a scored terminal; a call made on such a node has returned None.
BelowTerminal ==
    LET anc == AncestorMap
    IN  {n \in Addrs : \E q \in anc[n] : nodes[q].is_end_of_completion}

BetweenInsertions == pc = "insert" /\ j = 1

C23_NonRootNodes ==
    (BetweenInsertions \/ Built) =>
        \A n \in Addrs \ {root} :
            /\ nodes[n].count >= 1
            /\ Cardinality(Links(n)) = 1
            /\ KeyOf(n) = nodes[n].token_id
            /\ Items(n) = <<>> => nodes[n].is_end_of_completion

C23_Witness ==
    /\ BetweenInsertions
    /\ i = 3
    /\ Len(nodes) = 4
    /\ \E n \in Addrs \ {root} :
           /\ Items(n) # <<>>
           /\ ~nodes[n].is_end_of_completion
           /\ nodes[n].count = 2
    /\ \A n \in Addrs \ {root} : Items(n) = <<>> => nodes[n].count = 1
====
